---- MODULE Spec2Model ----
(***************************************************************************)
(* chat-ollama: the conversation store of src/chat_ollama/db_manager.py,   *)
(* the ollama helpers of src/chat_ollama/ollama_utils.py and the title     *)
(* generation of src/chat_ollama/frontend/frontend_utils.py.               *)
(*                                                                         *)
(* The SQLite file is modelled as two tables kept in rowid order, the two  *)
(* AUTOINCREMENT counters of sqlite_sequence, and the wall clock that      *)
(* CURRENT_TIMESTAMP reads (whole seconds, never stepping backwards).      *)
(* A run is bounded by its work: the rows it inserts and the seconds that  *)
(* pass while it runs.                                                     *)
(* Every function that writes is one action; `ret` holds which call was    *)
(* last, and what it returned or raised. The functions that only SELECT    *)
(* are operators over the tables: they are the rows the statement returns  *)
(* in the current state.                                                   *)
(*                                                                         *)
(* The ollama client is the environment: each of its calls returns or      *)
(* raises, and `calls` keeps what was asked of it and what it did.         *)
(* Spec is the store, TxSpec the store with add_message taken statement by *)
(* statement, ClientSpec is get_model and the generator of chat_model,     *)
(* TitleSpec is generate_chat_title, AppSpec is the script of              *)
(* src/chat_ollama/frontend/app.py, run once for each thing the user does. *)
(***************************************************************************)
EXTENDS Integers, Sequences, FiniteSets, TLC

\* ---- bounds of the model ------------------------------------------------
MaxWork  == 4      \* rows ever inserted plus seconds elapsed
MaxParts == 2      \* parts one ollama.chat stream hands over
MaxLen   == 3      \* length of the texts that are enumerated in full

\* ---- inputs -------------------------------------------------------------
\* Text is a sequence of characters, each written as a string; "eacute" and
\* "Eacute" are the letter e with an acute accent, small and capital.
Titles   == { <<>>, <<"a">> }
\* (title, model) pairs given to create_chat, (role, content) pairs given to
\* add_message
NewChats == { << <<>>, <<"m">> >>, << <<"a">>, <<>> >> }
NewMsgs  == { << "user", <<"b", "A">> >>, << "assistant", <<"eacute">> >> }
Queries  == { <<>>, <<"a">>, <<"A", "b">>, <<"_">>, <<"%">>, <<"Eacute">> }

\* what the ollama client is asked for, and what it answers
ModelNames    == { "gemma3" }

\* chat_ollama.constants: the list a conversation starts from, which is the
\* system message alone, and the model of a new session
START_MESSAGES == <<[role |-> "system", content |-> <<"s">>]>>
DEFAULT_MODEL  == "gemma3"

Conversations == { <<[role |-> "user", content |-> "hi"]>>,
                   <<[role |-> "system", content |-> "s"],
                     [role |-> "user", content |-> "hi"]>> }
Fragments     == { "The", " answer", "" }
Errors        == { "ResponseError", "ConnectionError" }

\* The texts given to generate_chat_title and the replies to its prompt are
\* made of two letters, two whitespace characters ("tab" is the tabulator)
\* and the three punctuation marks the function removes:
\* every text of up to MaxLen characters over a letter, the blank and the
\* period, and longer ones of up to five tokens
ShortTexts == UNION { [1..n -> {"a", " ", "."}] : n \in 0..MaxLen }
FirstMessages ==
    ShortTexts \cup
    { <<" ", "tab", " ">>,
      <<" ", "a", " ", " ", "b">>,
      <<"a", "tab", "b", " ", "a">>,
      <<"a", ".", " ", "b", "?", " ", "a", "!">>,
      <<"tab", "a", "b", " ", "b", " ", " ", "a", "?", " ", "b", " ", "a">> }
Replies ==
    ShortTexts \cup
    { <<"!", " ", "?">>,
      <<"a", ".", "b">>,
      <<"a", " ", "?", " ", "b">>,
      <<" ", "a", " ", "b", "!", "tab">>,
      <<"b", "a", "tab", "b", " ", " ", "a", ".">>,
      <<"a", " ", "b", ".", " ", "!", " ", "a", "b", " ", "b">>,
      <<"a", " ", "b", " ", "a", " ", "b", " ", "a">> }

VARIABLES
    schema,     \* the tables and indexes the database file holds, by name
    chats,      \* table chats: id -> [title, model, created_at, updated_at]
    messages,   \* table messages, in rowid order: seq of [id, chat_id, role, content, created_at]
    chat_seq,   \* sqlite_sequence row of chats (largest id ever used)
    msg_seq,    \* sqlite_sequence row of messages
    now,        \* CURRENT_TIMESTAMP, in seconds
    ret,        \* the last call: its name, its arguments, what it returned or raised
    calls,      \* the calls to the ollama client made by the function that ran
                \* last, or by the generator in use, each with its outcome
    gen,        \* where the generator made by chat_model stands
    stream,     \* the parts the open ollama.chat stream has handed over
    yielded,    \* the values the generator has yielded to its consumer
    result,     \* the last call of a function that talks to ollama
    asked,      \* what generate_chat_title is called with, and what ollama.chat
                \* does when it is given the prompt
    tx,         \* the open transaction of a connection that runs add_message
                \* statement by statement: what it has written and not committed
    issued,     \* the ids create_chat has returned, in the order of the calls
    heap,       \* the lists of messages of the frontend process, by name
    session_state, \* st.session_state: messages (a reference to a list of
                \* heap), model, current_chat_id (0 for None)
    script      \* where the running script of the frontend stands

store_vars  == <<schema, chats, messages, chat_seq, msg_seq, now, ret>>
client_vars == <<calls, gen, stream, yielded, result, asked>>
app_vars    == <<heap, session_state, script>>
vars == <<schema, chats, messages, chat_seq, msg_seq, now, ret,
          calls, gen, stream, yielded, result, asked, tx,
          issued, heap, session_state, script>>

\* ids a caller may pass: every id the store has handed out so far (the chat
\* may have been deleted since), and the next one, not handed out yet
ChatIds == 1..(chat_seq + 1)

\* The record of a call: raised = "" for a normal return, rid the row id it
\* returned (0 when it returns None).
Call(op, raised, rid) == [op |-> op, raised |-> raised, rid |-> rid]

\* Python's None, for get_chat: the empty list of rows
None == <<>>

\* no transaction is open
NoTx == [at |-> "idle", chat_id |-> 0, row |-> None, updated_at |-> 0]

\* The record of a call of get_model, of a resumption of the generator of
\* chat_model, or of generate_chat_title: raised = "" for a normal return.
Result(op, raised, value) == [op |-> op, raised |-> raised, value |-> value]

\* ---- helpers over the tables -------------------------------------------
ChatRow(id) ==
    [id |-> id, title |-> chats[id].title, model |-> chats[id].model,
     created_at |-> chats[id].created_at, updated_at |-> chats[id].updated_at]

\* The ids of a set, ascending: the order of a table scan by rowid.
RECURSIVE Ascending(_)
Ascending(S) ==
    IF S = {} THEN <<>>
    ELSE LET m == CHOOSE x \in S : \A y \in S : x <= y
         IN  <<m>> \o Ascending(S \ {m})

\* SQLite's sorter keeps rows with equal keys in the order they were scanned.
\* InsertAsc puts r behind every row whose key is <= its own.
RECURSIVE InsertAsc(_, _)
InsertAsc(r, s) ==
    IF s = <<>> THEN <<r>>
    ELSE IF Head(s).created_at <= r.created_at
         THEN <<Head(s)>> \o InsertAsc(r, Tail(s))
         ELSE <<r>> \o s

RECURSIVE OrderByCreatedAsc(_)
OrderByCreatedAsc(s) ==
    IF s = <<>> THEN <<>>
    ELSE InsertAsc(s[Len(s)], OrderByCreatedAsc(SubSeq(s, 1, Len(s) - 1)))

RECURSIVE InsertDesc(_, _)
InsertDesc(r, s) ==
    IF s = <<>> THEN <<r>>
    ELSE IF Head(s).updated_at >= r.updated_at
         THEN <<Head(s)>> \o InsertDesc(r, Tail(s))
         ELSE <<r>> \o s

RECURSIVE OrderByUpdatedDesc(_)
OrderByUpdatedDesc(s) ==
    IF s = <<>> THEN <<>>
    ELSE InsertDesc(s[Len(s)], OrderByUpdatedDesc(SubSeq(s, 1, Len(s) - 1)))

\* the rows of table messages WHERE chat_id = ?, in rowid order (the order
\* in which idx_messages_chat_id yields them)
MessagesOf(chat_id) == SelectSeq(messages, LAMBDA m : m.chat_id = chat_id)

\* table messages after DELETE ... WHERE chat_id = ?
MessagesWithout(chat_id) == SelectSeq(messages, LAMBDA m : m.chat_id # chat_id)

\* ---- the functions that read ---------------------------------------------
\* get_all_chats without its ORDER BY: the rows as the table scan yields them
get_all_chats_unordered ==
    LET scan == Ascending(DOMAIN chats)
    IN  [i \in 1..Len(scan) |-> ChatRow(scan[i])]

\* SELECT ... FROM chats ORDER BY updated_at DESC
get_all_chats ==
    LET scan == Ascending(DOMAIN chats)
    IN  OrderByUpdatedDesc([i \in 1..Len(scan) |-> ChatRow(scan[i])])

\* SELECT ... FROM chats WHERE id = ?; fetchone; dict(row) if row else None
get_chat(chat_id) ==
    IF chat_id \in DOMAIN chats THEN <<ChatRow(chat_id)>> ELSE None

\* get_messages with ORDER BY created_at DESC
get_messages_desc(chat_id) ==
    LET RECURSIVE ins(_, _)
        ins(r, q) == IF q = <<>> THEN <<r>>
                     ELSE IF Head(q).created_at >= r.created_at
                          THEN <<Head(q)>> \o ins(r, Tail(q))
                          ELSE <<r>> \o q
        RECURSIVE sort(_)
        sort(q) == IF q = <<>> THEN <<>>
                   ELSE ins(q[Len(q)], sort(SubSeq(q, 1, Len(q) - 1)))
    IN  sort(MessagesOf(chat_id))

\* SELECT ... FROM messages WHERE chat_id = ? ORDER BY created_at ASC
get_messages(chat_id) ==
    OrderByCreatedAsc(MessagesOf(chat_id))

\* ---- LIKE ----------------------------------------------------------------
\* SQLite's built-in LIKE folds the 26 ASCII letters only.
LikeFold(c) ==
    CASE c = "A" -> "a"
      [] c = "B" -> "b"
      [] OTHER   -> c

\* pattern LIKE text: % matches any run of characters, _ any one character,
\* every other character itself, ASCII letters without regard to case.
RECURSIVE Like(_, _)
Like(pattern, text) ==
    IF pattern = <<>> THEN text = <<>>
    ELSE IF Head(pattern) = "%"
         THEN \E k \in 0..Len(text) :
                 Like(Tail(pattern), SubSeq(text, k + 1, Len(text)))
         ELSE /\ text # <<>>
              /\ \/ Head(pattern) = "_"
                 \/ LikeFold(Head(pattern)) = LikeFold(Head(text))
              /\ Like(Tail(pattern), Tail(text))

\* f"%{query}%"
LikeArg(query) == <<"%">> \o query \o <<"%">>

\* the same with an inner JOIN: a chat without messages has no row
JoinWhere_inner(chat_id, query) ==
    LET ms   == MessagesOf(chat_id)
        onT  == Like(LikeArg(query), chats[chat_id].title)
        keep(i) == onT \/ Like(LikeArg(query), ms[i].content)
        RECURSIVE rows(_)
        rows(i) == IF i > Len(ms) THEN <<>>
                   ELSE (IF keep(i) THEN <<ChatRow(chat_id)>> ELSE <<>>) \o rows(i + 1)
    IN  rows(1)

\* chats c LEFT JOIN messages m ON c.id = m.chat_id, for one chat: a row for
\* each of its messages, or one row with m all NULL when it has none.
\* The WHERE clause keeps a row when the title or the row's content matches
\* (NULL LIKE ? is not true); the row is projected on the chat's columns.
JoinWhere(chat_id, query) ==
    LET ms   == MessagesOf(chat_id)
        onT  == Like(LikeArg(query), chats[chat_id].title)
        keep(i) == onT \/ Like(LikeArg(query), ms[i].content)
        RECURSIVE rows(_)
        rows(i) == IF i > Len(ms) THEN <<>>
                   ELSE (IF keep(i) THEN <<ChatRow(chat_id)>> ELSE <<>>) \o rows(i + 1)
    IN  IF ms = <<>>
        THEN (IF onT THEN <<ChatRow(chat_id)>> ELSE <<>>)
        ELSE rows(1)

RECURSIVE JoinAll(_, _)
JoinAll(scan, query) ==
    IF scan = <<>> THEN <<>>
    ELSE JoinWhere(Head(scan), query) \o JoinAll(Tail(scan), query)

\* SELECT DISTINCT: a row equal to an earlier one is dropped.
RECURSIVE Distinct(_)
Distinct(s) ==
    IF s = <<>> THEN <<>>
    ELSE LET d == Distinct(SubSeq(s, 1, Len(s) - 1))
         IN  IF \E i \in 1..Len(d) : d[i] = s[Len(s)] THEN d ELSE Append(d, s[Len(s)])

\* SELECT DISTINCT c.* FROM chats c LEFT JOIN messages m ... WHERE c.title LIKE ?
\* OR m.content LIKE ? ORDER BY c.updated_at DESC
search_chats(query) ==
    OrderByUpdatedDesc(Distinct(JoinAll(Ascending(DOMAIN chats), query)))

\* ---- the schema ----------------------------------------------------------
\* CREATE TABLE / CREATE INDEX ... IF NOT EXISTS name: the object is made
\* when the file has none of that name, and the statement does nothing
\* otherwise.
CreateIfNotExists(sch, name) == IF name \in sch THEN sch ELSE sch \cup {name}

\* the three statements of init_database, in their order
InitSchema(sch) ==
    CreateIfNotExists(
        CreateIfNotExists(
            CreateIfNotExists(sch, "chats"),
            "messages"),
        "idx_messages_chat_id")

\* ---- the state after init_database on a new file ------------------------
Init ==
    /\ schema = InitSchema({})
    /\ chats = <<>>
    /\ messages = <<>>
    /\ chat_seq = 0
    /\ msg_seq = 0
    /\ now = 0
    /\ ret = Call("init_database", "", 0)
    /\ calls = <<>>
    /\ gen = [at |-> "none", model |-> "", messages |-> <<>>]
    /\ stream = <<>>
    /\ yielded = <<>>
    /\ result = Result("", "", None)
    /\ asked = None
    /\ tx = NoTx
    /\ issued = <<>>
    /\ heap = [START_MESSAGES |-> START_MESSAGES, copy |-> <<>>]
    /\ session_state = [messages |-> "START_MESSAGES", model |-> DEFAULT_MODEL,
                        current_chat_id |-> 0]
    /\ script = [at |-> "idle", prompt |-> <<>>, model_response |-> <<>>]

\* ---- the clock ----------------------------------------------------------
Tick ==
    /\ chat_seq + msg_seq + now < MaxWork
    /\ now' = now + 1
    /\ UNCHANGED <<chats, messages, chat_seq, msg_seq, ret>>

\* ---- the operations -----------------------------------------------------
\* init_database with plain CREATE TABLE: the statement fails on a file that
\* holds the table already, before anything is committed
init_database_create ==
    /\ IF "chats" \in schema
       THEN /\ ret' = Call("init_database", "OperationalError", 0)
            /\ UNCHANGED schema
       ELSE /\ ret' = Call("init_database", "", 0)
            /\ schema' = InitSchema(schema)
    /\ UNCHANGED <<chats, messages, chat_seq, msg_seq, now>>

\* init_database runs DDL only: no row is read or written.
init_database ==
    /\ schema' = InitSchema(schema)
    /\ ret' = Call("init_database", "", 0)
    /\ UNCHANGED <<chats, messages, chat_seq, msg_seq, now>>

\* create_chat on a table whose id is INTEGER PRIMARY KEY without
\* AUTOINCREMENT: the new rowid is one more than the largest in the table
create_chat_rowid(title, model) ==
    /\ chat_seq + msg_seq + now < MaxWork
    /\ LET largest == IF DOMAIN chats = {} THEN 0
                      ELSE CHOOSE i \in DOMAIN chats : \A k \in DOMAIN chats : k <= i
           chat_id == largest + 1
       IN  /\ chats' = chats @@ (chat_id :> [title |-> title, model |-> model,
                                            created_at |-> now, updated_at |-> now])
           /\ chat_seq' = chat_seq + 1
           /\ issued' = Append(issued, chat_id)
           /\ ret' = Call("create_chat", "", chat_id)
    /\ UNCHANGED <<messages, msg_seq, now>>

\* create_chat with the two bound values in the wrong order
create_chat_swapped(title, model) ==
    /\ chat_seq + msg_seq + now < MaxWork
    /\ LET chat_id == chat_seq + 1
       IN  /\ chats' = chats @@ (chat_id :> [title |-> model, model |-> title,
                                            created_at |-> now, updated_at |-> now])
           /\ chat_seq' = chat_id
           /\ issued' = Append(issued, chat_id)
           /\ ret' = Call("create_chat", "", chat_id)
    /\ UNCHANGED <<messages, msg_seq, now>>

create_chat(title, model) ==
    /\ chat_seq + msg_seq + now < MaxWork
    /\ LET chat_id == chat_seq + 1
       IN  /\ chats' = chats @@ (chat_id :> [title |-> title, model |-> model,
                                            created_at |-> now, updated_at |-> now])
           /\ chat_seq' = chat_id
           /\ issued' = Append(issued, chat_id)
           /\ ret' = Call("create_chat", "", chat_id)
    /\ UNCHANGED <<messages, msg_seq, now>>

\* update_chat_title without its WHERE clause: every chat is renamed
update_chat_title_all(chat_id, title) ==
    /\ chats' = [i \in DOMAIN chats |->
                   [chats[i] EXCEPT !.title = title, !.updated_at = now]]
    /\ ret' = Call("update_chat_title", "", 0)
    /\ UNCHANGED <<messages, chat_seq, msg_seq, now>>

\* update_chat_title writing CURRENT_TIMESTAMP into created_at
update_chat_title_created(chat_id, title) ==
    /\ chats' = [i \in DOMAIN chats |->
                   IF i = chat_id
                   THEN [chats[i] EXCEPT !.title = title, !.created_at = now]
                   ELSE chats[i]]
    /\ ret' = Call("update_chat_title", "", 0)
    /\ UNCHANGED <<messages, chat_seq, msg_seq, now>>

update_chat_title(chat_id, title) ==
    /\ chats' = [i \in DOMAIN chats |->
                   IF i = chat_id
                   THEN [chats[i] EXCEPT !.title = title, !.updated_at = now]
                   ELSE chats[i]]
    /\ ret' = Call("update_chat_title", "", 0)
    /\ UNCHANGED <<messages, chat_seq, msg_seq, now>>

\* delete_chat raising when its DELETE found no row (cursor.rowcount = 0)
delete_chat_strict(chat_id) ==
    /\ chats' = [i \in DOMAIN chats \ {chat_id} |-> chats[i]]
    /\ messages' = IF chat_id \in DOMAIN chats THEN MessagesWithout(chat_id) ELSE messages
    /\ ret' = Call("delete_chat", IF chat_id \in DOMAIN chats THEN "" ELSE "LookupError", 0)
    /\ UNCHANGED <<chat_seq, msg_seq, now>>

\* delete_chat on a connection without PRAGMA foreign_keys = ON: no cascade
delete_chat_no_cascade(chat_id) ==
    /\ chats' = [i \in DOMAIN chats \ {chat_id} |-> chats[i]]
    /\ ret' = Call("delete_chat", "", 0)
    /\ UNCHANGED <<messages, chat_seq, msg_seq, now>>

\* DELETE FROM chats; the connection has foreign_keys = ON, so the rows of
\* messages that reference the chat go with it (ON DELETE CASCADE).
delete_chat(chat_id) ==
    /\ chats' = [i \in DOMAIN chats \ {chat_id} |-> chats[i]]
    /\ messages' = IF chat_id \in DOMAIN chats THEN MessagesWithout(chat_id) ELSE messages
    /\ ret' = Call("delete_chat", "", 0)
    /\ UNCHANGED <<chat_seq, msg_seq, now>>

\* add_message on a connection without PRAGMA foreign_keys = ON: the INSERT
\* is accepted whatever chat_id is, and the UPDATE finds no row
add_message_no_fk(chat_id, role, content) ==
    /\ chat_seq + msg_seq + now < MaxWork
    /\ LET message_id == msg_seq + 1
       IN  /\ messages' = Append(messages,
                 [id |-> message_id, chat_id |-> chat_id, role |-> role,
                  content |-> content, created_at |-> now])
           /\ msg_seq' = message_id
           /\ chats' = [i \in DOMAIN chats |->
                          IF i = chat_id THEN [chats[i] EXCEPT !.updated_at = now]
                          ELSE chats[i]]
           /\ ret' = Call("add_message", "", message_id)
    /\ UNCHANGED <<chat_seq, now>>

\* The INSERT is refused when chat_id names no chat: the exception leaves
\* add_message before the UPDATE and before commit, so nothing is stored.
\* Otherwise the INSERT and the UPDATE each read CURRENT_TIMESTAMP, and the
\* second may turn over between the two statements (d).
add_message(chat_id, role, content) ==
    \/ /\ chat_id \notin DOMAIN chats
       /\ ret' = Call("add_message", "IntegrityError", 0)
       /\ UNCHANGED <<chats, messages, chat_seq, msg_seq, now>>
    \/ /\ chat_id \in DOMAIN chats
       /\ \E d \in {0, 1} :
             /\ chat_seq + msg_seq + now + d < MaxWork
             /\ LET message_id == msg_seq + 1
                IN  /\ messages' = Append(messages,
                          [id |-> message_id, chat_id |-> chat_id, role |-> role,
                           content |-> content, created_at |-> now])
                    /\ msg_seq' = message_id
                    /\ chats' = [chats EXCEPT ![chat_id].updated_at = now + d]
                    /\ now' = now + d
                    /\ ret' = Call("add_message", "", message_id)
       /\ UNCHANGED chat_seq

\* clear_chat_messages without the WHERE clause of its DELETE
clear_chat_messages_all(chat_id) ==
    /\ messages' = <<>>
    /\ chats' = [i \in DOMAIN chats |->
                   IF i = chat_id THEN [chats[i] EXCEPT !.updated_at = now] ELSE chats[i]]
    /\ ret' = Call("clear_chat_messages", "", 0)
    /\ UNCHANGED <<chat_seq, msg_seq, now>>

\* clear_chat_messages without its UPDATE
clear_chat_messages_no_bump(chat_id) ==
    /\ messages' = MessagesWithout(chat_id)
    /\ ret' = Call("clear_chat_messages", "", 0)
    /\ UNCHANGED <<chats, chat_seq, msg_seq, now>>

clear_chat_messages(chat_id) ==
    /\ messages' = MessagesWithout(chat_id)
    /\ chats' = [i \in DOMAIN chats |->
                   IF i = chat_id THEN [chats[i] EXCEPT !.updated_at = now] ELSE chats[i]]
    /\ ret' = Call("clear_chat_messages", "", 0)
    /\ UNCHANGED <<chat_seq, msg_seq, now>>

\* The store on its own: no function of db_manager talks to ollama, and none
\* but init_database changes the schema.
Next ==
    \/ Tick /\ UNCHANGED <<schema, client_vars, tx, app_vars, issued>>
    \/ init_database /\ UNCHANGED <<client_vars, tx, app_vars, issued>>
    \/ \E c \in NewChats : create_chat(c[1], c[2]) /\ UNCHANGED <<schema, client_vars, tx, app_vars>>
    \/ \E chat_id \in ChatIds, title \in Titles :
          update_chat_title(chat_id, title) /\ UNCHANGED <<schema, client_vars, tx, app_vars, issued>>
    \/ \E chat_id \in ChatIds :
          delete_chat(chat_id) /\ UNCHANGED <<schema, client_vars, tx, app_vars, issued>>
    \/ \E chat_id \in ChatIds, m \in NewMsgs :
          add_message(chat_id, m[1], m[2]) /\ UNCHANGED <<schema, client_vars, tx, app_vars, issued>>
    \/ \E chat_id \in ChatIds :
          clear_chat_messages(chat_id) /\ UNCHANGED <<schema, client_vars, tx, app_vars, issued>>

Spec == Init /\ [][Next]_vars


\* ---- add_message, statement by statement --------------------------------
\* The connection of add_message is in sqlite3's default mode: the INSERT
\* opens a transaction, and what the INSERT and the UPDATE write is seen by
\* no other connection before conn.commit(). The variables chats and
\* messages are the committed tables, the ones every other connection reads.
\* From the INSERT to the commit the connection holds the write lock of the
\* file: another connection that wants to write waits, or gives up with
\* "database is locked", and writes nothing.

\* the INSERT run in autocommit mode (isolation_level = None): the row is
\* committed by the statement itself
add_message_insert_autocommit(chat_id, role, content) ==
    /\ tx.at = "idle"
    /\ chat_seq + msg_seq + now < MaxWork
    /\ chat_id \in DOMAIN chats
    /\ LET message_id == msg_seq + 1
           row == [id |-> message_id, chat_id |-> chat_id, role |-> role,
                   content |-> content, created_at |-> now]
       IN  /\ messages' = Append(messages, row)
           /\ msg_seq' = message_id
           /\ tx' = [at |-> "inserted", chat_id |-> chat_id, row |-> row, updated_at |-> 0]
    /\ UNCHANGED <<chats, chat_seq, now, ret>>

\* cursor.execute("INSERT INTO messages ...")
add_message_insert(chat_id, role, content) ==
    /\ tx.at = "idle"
    /\ chat_seq + msg_seq + now < MaxWork
    /\ IF chat_id \notin DOMAIN chats
       THEN /\ ret' = Call("add_message", "IntegrityError", 0)
            /\ UNCHANGED tx
       ELSE /\ tx' = [at |-> "inserted", chat_id |-> chat_id,
                      row |-> [id |-> msg_seq + 1, chat_id |-> chat_id, role |-> role,
                               content |-> content, created_at |-> now],
                      updated_at |-> 0]
            /\ UNCHANGED ret
    /\ UNCHANGED <<chats, messages, chat_seq, msg_seq, now>>

\* cursor.execute("UPDATE chats SET updated_at = CURRENT_TIMESTAMP ...")
add_message_update ==
    /\ tx.at = "inserted"
    /\ tx' = [tx EXCEPT !.at = "updated", !.updated_at = now]
    /\ UNCHANGED <<chats, messages, chat_seq, msg_seq, now, ret>>

\* conn.commit(): what the transaction wrote becomes the content of the file
add_message_commit ==
    /\ tx.at = "updated"
    /\ messages' = Append(messages, tx.row)
    /\ msg_seq' = tx.row.id
    /\ chats' = [chats EXCEPT ![tx.chat_id].updated_at = tx.updated_at]
    /\ ret' = Call("add_message", "", tx.row.id)
    /\ tx' = NoTx
    /\ UNCHANGED <<chat_seq, now>>

\* The call ends before its commit is done: the process is stopped, or a
\* statement or the commit raises (the file is locked by another
\* connection, the disk is full). The connection is closed without commit
\* and the transaction is rolled back.
add_message_abort ==
    /\ tx.at \in {"inserted", "updated"}
    /\ tx' = NoTx
    /\ ret' = Call("add_message", "OperationalError", 0)
    /\ UNCHANGED <<chats, messages, chat_seq, msg_seq, now>>

\* add_message in steps, next to the clock and to the writers of other
\* connections, which get the write lock only while no transaction is open
TxNext ==
    \/ Tick /\ UNCHANGED <<schema, client_vars, tx, app_vars, issued>>
    \/ \E c \in NewChats :
          tx.at = "idle" /\ create_chat(c[1], c[2]) /\ UNCHANGED <<schema, client_vars, tx, app_vars>>
    \/ \E chat_id \in ChatIds :
          tx.at = "idle" /\ delete_chat(chat_id) /\ UNCHANGED <<schema, client_vars, tx, app_vars, issued>>
    \/ \E chat_id \in ChatIds, m \in NewMsgs :
          add_message_insert(chat_id, m[1], m[2]) /\ UNCHANGED <<schema, client_vars, app_vars, issued>>
    \/ add_message_update /\ UNCHANGED <<schema, client_vars, app_vars, issued>>
    \/ add_message_commit /\ UNCHANGED <<schema, client_vars, app_vars, issued>>
    \/ add_message_abort /\ UNCHANGED <<schema, client_vars, app_vars, issued>>

TxSpec == Init /\ [][TxNext]_vars

\* ---- ollama_utils -------------------------------------------------------
\* One call of the ollama client: err = "" when it returned, else the
\* exception it raised.
ClientCall(fn, model, err) == [fn |-> fn, model |-> model, err |-> err]

Outcomes == {""} \cup Errors

\* ollama.chat given the messages without the first of them
ChatCall_tail(model, msgs, err) ==
    [fn |-> "chat", model |-> model, messages |-> Tail(msgs), stream |-> TRUE,
     err |-> err]

\* ollama.chat(model=model_name, messages=messages, stream=True)
ChatCall(model, msgs, err) ==
    [fn |-> "chat", model |-> model, messages |-> msgs, stream |-> TRUE,
     err |-> err]

\* get_model without its early return: ollama.pull is called in any case
get_model_calls_always_pull(model_name) ==
    { <<ClientCall("show", model_name, e), ClientCall("pull", model_name, p)>> :
         e \in Outcomes, p \in Outcomes }

\* The client calls one run of get_model makes, with their outcomes:
\* ollama.show, and ollama.pull when show raised. Both try blocks catch
\* Exception, so neither outcome leaves the function.
get_model_calls(model_name) ==
    { <<ClientCall("show", model_name, "")>> }
    \cup { <<ClientCall("show", model_name, e), ClientCall("pull", model_name, p)>> :
              e \in Errors, p \in Outcomes }

\* The functions share nothing but the client, and the one consumer of a
\* generator (st.write_stream) drains it before anything else is called.
get_model(model_name) ==
    /\ gen.at \notin {"created", "streaming"}
    /\ \E cs \in get_model_calls(model_name) : calls' = cs
    /\ result' = Result("get_model", "", None)
    /\ UNCHANGED <<gen, stream, yielded>>

\* Calling a generator function runs none of its body: the arguments are
\* bound and the generator object is handed back (msgs is the argument
\* `messages`).
chat_model(model_name, msgs) ==
    /\ gen.at \notin {"created", "streaming"}
    /\ gen' = [at |-> "created", model |-> model_name, messages |-> msgs]
    /\ stream' = <<>>
    /\ yielded' = <<>>
    /\ result' = Result("chat_model", "", "generator")
    /\ calls' = <<>>

\* the loop yielding a part's content only when it is not empty
NextPart_skip_empty(log) ==
    \/ \E f \in Fragments :
          LET part == [message |-> [content |-> f]]
          IN  /\ Len(stream) < MaxParts
              /\ calls' = Append(log, ClientCall("next", gen.model, ""))
              /\ stream' = Append(stream, part)
              /\ yielded' = IF part.message.content = "" THEN yielded
                            ELSE Append(yielded, part.message.content)
              /\ gen' = [gen EXCEPT !.at = "streaming"]
              /\ result' = Result("next", "", part.message.content)
    \/ /\ calls' = Append(log, ClientCall("next", gen.model, "StopIteration"))
       /\ gen' = [gen EXCEPT !.at = "exhausted"]
       /\ result' = Result("next", "StopIteration", None)
       /\ UNCHANGED <<stream, yielded>>
    \/ \E e \in Errors :
          /\ calls' = Append(log, ClientCall("next", gen.model, e))
          /\ gen' = [gen EXCEPT !.at = "raised"]
          /\ result' = Result("next", e, None)
          /\ UNCHANGED <<stream, yielded>>

\* the loop inside try/except Exception: an error of the stream ends it
NextPart_swallow(log) ==
    \/ \E f \in Fragments :
          LET part == [message |-> [content |-> f]]
          IN  /\ Len(stream) < MaxParts
              /\ calls' = Append(log, ClientCall("next", gen.model, ""))
              /\ stream' = Append(stream, part)
              /\ yielded' = Append(yielded, part.message.content)
              /\ gen' = [gen EXCEPT !.at = "streaming"]
              /\ result' = Result("next", "", part.message.content)
    \/ /\ calls' = Append(log, ClientCall("next", gen.model, "StopIteration"))
       /\ gen' = [gen EXCEPT !.at = "exhausted"]
       /\ result' = Result("next", "StopIteration", None)
       /\ UNCHANGED <<stream, yielded>>
    \/ \E e \in Errors :
          /\ calls' = Append(log, ClientCall("next", gen.model, e))
          /\ gen' = [gen EXCEPT !.at = "exhausted"]
          /\ result' = Result("next", "StopIteration", None)
          /\ UNCHANGED <<stream, yielded>>

\* for part in res: print(part.message.content); yield part.message.content
\* One turn of the loop, after the client calls in log: the stream hands over
\* a part, or ends, or raises.
NextPart(log) ==
    \/ \E f \in Fragments :
          LET part == [message |-> [content |-> f]]
          IN  /\ Len(stream) < MaxParts
              /\ calls' = Append(log, ClientCall("next", gen.model, ""))
              /\ stream' = Append(stream, part)
              /\ yielded' = Append(yielded, part.message.content)
              /\ gen' = [gen EXCEPT !.at = "streaming"]
              /\ result' = Result("next", "", part.message.content)
    \/ /\ calls' = Append(log, ClientCall("next", gen.model, "StopIteration"))
       /\ gen' = [gen EXCEPT !.at = "exhausted"]
       /\ result' = Result("next", "StopIteration", None)
       /\ UNCHANGED <<stream, yielded>>
    \/ \E e \in Errors :
          /\ calls' = Append(log, ClientCall("next", gen.model, e))
          /\ gen' = [gen EXCEPT !.at = "raised"]
          /\ result' = Result("next", e, None)
          /\ UNCHANGED <<stream, yielded>>

\* The consumer asks the generator for its next value. The first time the
\* body runs from its top: get_model, then ollama.chat(stream=True), then
\* the loop. A generator that has returned or raised is finished.
chat_model_next ==
    \/ /\ gen.at = "created"
       /\ \E cs \in get_model_calls(gen.model), open \in Outcomes :
             LET log == calls \o cs \o <<ChatCall(gen.model, gen.messages, open)>>
             IN  IF open = ""
                 THEN NextPart(log)
                 ELSE /\ calls' = log
                      /\ gen' = [gen EXCEPT !.at = "raised"]
                      /\ result' = Result("next", open, None)
                      /\ UNCHANGED <<stream, yielded>>
    \/ /\ gen.at = "streaming"
       /\ NextPart(calls)
    \/ /\ gen.at \in {"exhausted", "raised"}
       /\ result' = Result("next", "StopIteration", None)
       /\ UNCHANGED <<calls, gen, stream, yielded>>

ClientNext ==
    \/ \E model_name \in ModelNames :
          get_model(model_name) /\ UNCHANGED <<store_vars, asked, tx, app_vars, issued>>
    \/ \E model_name \in ModelNames, msgs \in Conversations :
          chat_model(model_name, msgs) /\ UNCHANGED <<store_vars, asked, tx, app_vars, issued>>
    \/ chat_model_next /\ UNCHANGED <<store_vars, asked, tx, app_vars, issued>>

ClientSpec == Init /\ [][ClientNext]_vars


\* ---- frontend_utils -----------------------------------------------------
\* str.strip, str.split, str.replace(old, '') and ' '.join on texts
IsSpace(c) == c \in {" ", "tab"}

\* stripping the blank only, not the other whitespace characters
strip_blank_only(t) ==
    LET RECURSIVE l(_)
        l(u) == IF u # <<>> /\ Head(u) = " " THEN l(Tail(u)) ELSE u
        RECURSIVE r(_)
        r(u) == IF u # <<>> /\ u[Len(u)] = " " THEN r(SubSeq(u, 1, Len(u) - 1)) ELSE u
    IN  r(l(t))

RECURSIVE lstrip(_)
lstrip(t) == IF t # <<>> /\ IsSpace(Head(t)) THEN lstrip(Tail(t)) ELSE t

RECURSIVE rstrip(_)
rstrip(t) ==
    IF t # <<>> /\ IsSpace(t[Len(t)]) THEN rstrip(SubSeq(t, 1, Len(t) - 1)) ELSE t

strip(t) == rstrip(lstrip(t))

\* the length of the run of non-whitespace characters t begins with
RECURSIVE Run(_)
Run(t) == IF t = <<>> \/ IsSpace(Head(t)) THEN 0 ELSE 1 + Run(Tail(t))

\* splitting at blanks only: the other whitespace characters stay in the words
split_blank_only(t) ==
    LET RECURSIVE sp(_)
        sp(u) ==
            IF u = <<>> THEN <<>>
            ELSE IF Head(u) = " " THEN sp(Tail(u))
            ELSE LET RECURSIVE run(_)
                     run(v) == IF v = <<>> \/ Head(v) = " " THEN 0 ELSE 1 + run(Tail(v))
                     n == run(u)
                 IN  <<SubSeq(u, 1, n)>> \o sp(SubSeq(u, n + 1, Len(u)))
    IN  sp(t)

RECURSIVE split(_)
split(t) ==
    IF lstrip(t) = <<>> THEN <<>>
    ELSE LET u == lstrip(t)
             n == Run(u)
         IN  <<SubSeq(u, 1, n)>> \o split(SubSeq(u, n + 1, Len(u)))

\* replacing the first occurrence only, as str.replace(old, '', 1)
replace_first(t, old) ==
    IF \E i \in 1..Len(t) : t[i] = old
    THEN LET i == CHOOSE i \in 1..Len(t) : t[i] = old /\ \A k \in 1..(i - 1) : t[k] # old
         IN  SubSeq(t, 1, i - 1) \o SubSeq(t, i + 1, Len(t))
    ELSE t

replace(t, old) == SelectSeq(t, LAMBDA c : c # old)

RECURSIVE join(_)
join(words) ==
    IF words = <<>> THEN <<>>
    ELSE IF Len(words) = 1 THEN words[1]
    ELSE words[1] \o <<" ">> \o join(Tail(words))

NewChat == <<"N", "e", "w", " ", "C", "h", "a", "t">>

\* The one call generate_chat_title makes: ollama.chat(stream=False) with a
\* prompt built around first_message, and the content of its reply (None
\* when it raised).
TitleCall(model, first_message, err, content) ==
    [fn |-> "chat", model |-> model, prompt |-> first_message,
     err |-> err, content |-> content]

\* ollama.chat answers asked.content, or raises asked.err.
generate_chat_title(first_message, model) ==
    /\ IF first_message = <<>> \/ strip(first_message) = <<>>
       THEN /\ calls' = <<>>
            /\ result' = Result("generate_chat_title", "", NewChat)
       ELSE IF asked.err = ""
       THEN LET title == strip(asked.content)
                words == split(replace(replace(replace(title, "."), "!"), "?"))
            IN  /\ calls' = <<TitleCall(model, first_message, "", asked.content)>>
                /\ result' = Result("generate_chat_title", "",
                      IF Len(words) >= 3 THEN join(SubSeq(words, 1, 3))
                      ELSE IF Len(words) > 0 THEN join(words)
                      ELSE NewChat)
       ELSE LET all   == split(first_message)
                words == SubSeq(all, 1, IF Len(all) < 3 THEN Len(all) ELSE 3)
            IN  /\ calls' = <<TitleCall(model, first_message, asked.err, None)>>
                /\ result' = Result("generate_chat_title", "",
                      IF words # <<>> THEN join(words) ELSE NewChat)
    /\ UNCHANGED <<gen, stream, yielded, asked>>

\* A call of generate_chat_title with every first_message and model, and
\* every answer of ollama.chat: a reply, or an error.
TitleInit ==
    /\ schema = InitSchema({})
    /\ chats = <<>>
    /\ messages = <<>>
    /\ chat_seq = 0
    /\ msg_seq = 0
    /\ now = 0
    /\ ret = Call("init_database", "", 0)
    /\ calls = <<>>
    /\ gen = [at |-> "none", model |-> "", messages |-> <<>>]
    /\ stream = <<>>
    /\ yielded = <<>>
    /\ result = Result("", "", None)
    /\ tx = NoTx
    /\ issued = <<>>
    /\ heap = [START_MESSAGES |-> START_MESSAGES, copy |-> <<>>]
    /\ session_state = [messages |-> "START_MESSAGES", model |-> DEFAULT_MODEL,
                        current_chat_id |-> 0]
    /\ script = [at |-> "idle", prompt |-> <<>>, model_response |-> <<>>]
    /\ \E first_message \in FirstMessages, model \in ModelNames :
          \/ \E content \in Replies :
                asked = [first_message |-> first_message, model |-> model,
                         err |-> "", content |-> content]
          \/ \E e \in Errors :
                asked = [first_message |-> first_message, model |-> model,
                         err |-> e, content |-> None]

TitleNext ==
    generate_chat_title(asked.first_message, asked.model) /\ UNCHANGED <<store_vars, tx, app_vars, issued>>

TitleSpec == TitleInit /\ [][TitleNext]_vars

\* ---- frontend/app.py ----------------------------------------------------
\* Streamlit runs the script from its top each time the user does something:
\* sends a prompt, presses New Chat, presses the button of a saved chat.
\* st.session_state and the imported modules live as long as the process. A
\* name of session_state holds a reference to an object, so the lists are
\* kept in heap under a name: "START_MESSAGES" is the list of the module
\* chat_ollama.constants, "copy" the list made by the last
\* START_MESSAGES.copy(). Text is a sequence of characters here, so that
\* st.write_stream can put the fragments together.
Prompts == { <<"h", "i">> }

\* the characters of a fragment the stream hands over
Text(f) ==
    CASE f = "The"     -> <<"T", "h", "e">>
      [] f = " answer" -> <<" ", "a", "n", "s", "w", "e", "r">>
      [] OTHER         -> <<>>

\* st.write_stream(generator) returns the full response: what the generator
\* yielded, as one string
write_stream(parts) ==
    LET RECURSIVE cat(_)
        cat(k) == IF k = 0 THEN <<>> ELSE cat(k - 1) \o Text(parts[k])
    IN  cat(Len(parts))

\* st.session_state["messages"]
Messages == heap[session_state.messages]

\* {"role": msg["role"], "content": msg["content"]} for msg in get_messages(chat_id)
messages_from_db(chat_id) ==
    LET rows == get_messages(chat_id)
    IN  [i \in 1..Len(rows) |-> [role |-> rows[i].role, content |-> rows[i].content]]

\* the generator of a run is gone when the run is over
generator_dropped ==
    /\ calls' = <<>>
    /\ gen' = [at |-> "none", model |-> "", messages |-> <<>>]
    /\ stream' = <<>>
    /\ yielded' = <<>>
    /\ result' = Result("", "", None)

\* A run that handles a prompt starts: init_database(), the session has its
\* three names already, and the user message is appended to the list that
\* st.session_state["messages"] refers to.
prompt_append(prompt) ==
    /\ script.at = "idle"
    /\ init_database
    /\ heap' = [heap EXCEPT ![session_state.messages] =
                   Append(@, [role |-> "user", content |-> prompt])]
    /\ script' = [at |-> "appended", prompt |-> prompt, model_response |-> <<>>]
    /\ UNCHANGED session_state

\* if current_chat_id is None: the title is generated (generate_chat_title
\* returns a string whatever ollama does) and the chat is created
prompt_create_chat(chat_title) ==
    /\ script.at = "appended"
    /\ session_state.current_chat_id = 0
    /\ create_chat(chat_title, session_state.model)
    /\ session_state' = [session_state EXCEPT !.current_chat_id = ret'.rid]
    /\ script' = [script EXCEPT !.at = "chat"]
    /\ UNCHANGED heap

\* add_message(current_chat_id, "user", prompt); an exception ends the run
prompt_save_user ==
    /\ \/ script.at = "chat"
       \/ script.at = "appended" /\ session_state.current_chat_id # 0
    /\ add_message(session_state.current_chat_id, "user", script.prompt)
    /\ script' = [script EXCEPT !.at = IF ret'.raised = "" THEN "saved" ELSE "idle"]
    /\ UNCHANGED <<heap, session_state>>

\* chat_model(model, messages) makes the generator st.write_stream is given
prompt_open_stream ==
    /\ script.at = "saved"
    /\ chat_model(session_state.model, Messages)
    /\ script' = [script EXCEPT !.at = "streaming"]
    /\ UNCHANGED <<heap, session_state>>

\* st.write_stream treating an error of the stream as its end
write_stream_next_partial ==
    /\ script.at = "streaming"
    /\ chat_model_next
    /\ script' = IF result'.raised = ""
                 THEN script
                 ELSE [script EXCEPT !.at = "streamed",
                                     !.model_response = write_stream(yielded')]
    /\ UNCHANGED <<heap, session_state>>

\* st.write_stream asks the generator for its next value: it writes it, or
\* the generator is exhausted and the full response is returned, or the
\* generator raises and st.write_stream lets the exception through
write_stream_next ==
    /\ script.at = "streaming"
    /\ chat_model_next
    /\ script' = CASE result'.raised = "" -> script
                   [] result'.raised = "StopIteration" ->
                         [script EXCEPT !.at = "streamed",
                                        !.model_response = write_stream(yielded')]
                   [] OTHER -> [script EXCEPT !.at = "raised"]
    /\ UNCHANGED <<heap, session_state>>

\* the exception leaves the script: nothing below line 48 runs
run_raises ==
    /\ script.at = "raised"
    /\ generator_dropped
    /\ script' = [script EXCEPT !.at = "idle"]
    /\ UNCHANGED <<heap, session_state>>

\* the response is appended to the session's list and saved; the sidebar
\* then sets the model to the one the selectbox shows
prompt_save_assistant ==
    /\ script.at = "streamed"
    /\ heap' = [heap EXCEPT ![session_state.messages] =
                   Append(@, [role |-> "assistant",
                              content |-> script.model_response])]
    /\ add_message(session_state.current_chat_id, "assistant", script.model_response)
    /\ \E model \in ModelNames :
          session_state' = [session_state EXCEPT !.model = model]
    /\ generator_dropped
    /\ script' = [script EXCEPT !.at = "idle"]

\* the New Chat button: st.session_state["messages"] = START_MESSAGES, which
\* is the list of the module, not a copy of it
new_chat ==
    /\ script.at = "idle"
    /\ init_database
    /\ \E model \in ModelNames :
          session_state' = [messages |-> "START_MESSAGES", model |-> model,
                            current_chat_id |-> 0]
    /\ UNCHANGED <<heap, script>>

\* the button of a saved chat: the session takes the chat's id and a new
\* list, START_MESSAGES.copy() followed by the chat's messages; the run
\* started by st.rerun() sets the model to the one the selectbox shows
load_chat(chat) ==
    /\ script.at = "idle"
    /\ init_database
    /\ heap' = [heap EXCEPT !.copy = heap.START_MESSAGES \o messages_from_db(chat.id)]
    /\ \E model \in ModelNames :
          session_state' = [messages |-> "copy", model |-> model,
                            current_chat_id |-> chat.id]
    /\ UNCHANGED script

AppNext ==
    \/ Tick /\ UNCHANGED <<schema, client_vars, tx, app_vars, issued>>
    \/ \E prompt \in Prompts :
          prompt_append(prompt) /\ UNCHANGED <<client_vars, tx, issued>>
    \/ \E chat_title \in Titles :
          prompt_create_chat(chat_title) /\ UNCHANGED <<schema, client_vars, tx>>
    \/ prompt_save_user /\ UNCHANGED <<schema, client_vars, tx, issued>>
    \/ prompt_open_stream /\ UNCHANGED <<store_vars, asked, tx, issued>>
    \/ write_stream_next /\ UNCHANGED <<store_vars, asked, tx, issued>>
    \/ run_raises /\ UNCHANGED <<store_vars, asked, tx, issued>>
    \/ prompt_save_assistant /\ UNCHANGED <<schema, asked, tx, issued>>
    \/ new_chat /\ UNCHANGED <<client_vars, tx, issued>>
    \/ \E k \in 1..Len(get_all_chats) :
          load_chat(get_all_chats[k]) /\ UNCHANGED <<client_vars, tx, issued>>

AppSpec == Init /\ [][AppNext]_vars

\* ---- properties ----------------------------------------------------------
\* A property about the steps of one function names the function's action.
\* Each action writes its name into ret.op, so the test of ret'.op in front
\* of an action adds nothing to it: it spares evaluating the action on the
\* steps of the other functions.
Range(s) == { s[i] : i \in 1..Len(s) }

\* some chat has been deleted: ids are never handed out twice
SomeChatDeleted == Cardinality(DOMAIN chats) < chat_seq

\* C1: add_message with a chat_id that names no existing chat (never created,
\* or created and since deleted) raises the referential-integrity error, and
\* leaves table messages and every chat's fields, updated_at included, as they
\* were before the call.
C1_OrphanInsertRaises ==
    [][\A chat_id \in ChatIds, m \in NewMsgs :
          (/\ chat_id \notin DOMAIN chats
           /\ ret'.op = "add_message"
           /\ add_message(chat_id, m[1], m[2]))
          => /\ ret'.raised = "IntegrityError"
             /\ messages' = messages
             /\ chats' = chats]_vars

\* a refused add_message, in a store that holds messages and has lost a chat
C1_Witness ==
    /\ ret.op = "add_message"
    /\ ret.raised = "IntegrityError"
    /\ messages # <<>>
    /\ SomeChatDeleted

\* C2: after any sequence of calls, successful or failed, every stored
\* message's chat_id is the id of a chat that exists in the store.
C2_NoOrphanMessage ==
    \A i \in 1..Len(messages) : messages[i].chat_id \in DOMAIN chats

\* a delete_chat has acted on a store that still holds a message afterwards
C2_Witness ==
    /\ ret.op = "delete_chat"
    /\ SomeChatDeleted
    /\ messages # <<>>

\* C3: delete_chat(id) on an existing chat, whatever messages it has: after
\* it get_chat(id) is absent and get_messages(id) is empty, and every other
\* chat and every message of every other chat is unchanged.
C3_DeleteCascades ==
    [][\A chat_id \in DOMAIN chats :
          (ret'.op = "delete_chat" /\ delete_chat(chat_id))
          => /\ get_chat(chat_id)' = None
             /\ get_messages(chat_id)' = <<>>
             /\ DOMAIN chats' = DOMAIN chats \ {chat_id}
             /\ \A other \in DOMAIN chats \ {chat_id} :
                   /\ get_chat(other)' = get_chat(other)
                   /\ get_messages(other)' = get_messages(other)
             /\ messages' = SelectSeq(messages, LAMBDA m : m.chat_id # chat_id)]_vars

\* delete_chat has acted: a chat and a message are gone, another chat is left
C3_Witness ==
    /\ ret.op = "delete_chat"
    /\ SomeChatDeleted
    /\ DOMAIN chats # {}
    /\ Len(messages) < msg_seq

C5_AllChatsNewestFirst ==
    LET r == get_all_chats
    IN  /\ Len(r) = Cardinality(DOMAIN chats)
        /\ \A id \in DOMAIN chats : \E i \in 1..Len(r) : r[i] = ChatRow(id)
        /\ \A i, j \in 1..Len(r) : i < j => r[i].updated_at >= r[j].updated_at
        /\ (DOMAIN chats = {} => r = <<>>)

\* the older of two chats was updated later and is listed first
C5_Witness ==
    LET r == get_all_chats
    IN  /\ Len(r) >= 2
        /\ r[1].id < r[2].id
        /\ r[1].updated_at > r[2].updated_at

\* C6: for every title and model, the empty string included,
\* get_chat(create_chat(title, model)) is a chat with that title and model,
\* the id create_chat returned, and created_at equal to updated_at.
C6_CreateThenGet ==
    [][\A c \in NewChats :
          (ret'.op = "create_chat" /\ create_chat(c[1], c[2]))
          => LET g == get_chat(ret.rid)'
             IN  /\ g # None
                 /\ g[1].id = ret'.rid
                 /\ g[1].title = c[1]
                 /\ g[1].model = c[2]
                 /\ g[1].created_at = g[1].updated_at]_vars

\* a chat with an empty title has just been created, after the first second
C6_Witness ==
    /\ ret.op = "create_chat"
    /\ ret.rid \in DOMAIN chats
    /\ chats[ret.rid].title = <<>>
    /\ chats[ret.rid].model # <<>>
    /\ chats[ret.rid].created_at > 0

\* C7: for every id that names no existing chat, get_chat is None and
\* get_messages is the empty list.
C7_AbsentChatReads ==
    \A chat_id \in ChatIds \ DOMAIN chats :
        /\ get_chat(chat_id) = None
        /\ get_messages(chat_id) = <<>>

\* one id was never handed out and another names a deleted chat, in a store
\* that has lost a message and still holds a chat
C7_Witness ==
    /\ SomeChatDeleted
    /\ Len(messages) < msg_seq
    /\ DOMAIN chats # {}

\* C8: every chat's updated_at is at least its created_at, and no call
\* changes the created_at of a chat.
C8_UpdatedNotBeforeCreated ==
    /\ [](\A id \in DOMAIN chats : chats[id].updated_at >= chats[id].created_at)
    /\ [][\A id \in DOMAIN chats \cap DOMAIN chats' :
             chats'[id].created_at = chats[id].created_at]_vars

\* a chat updated in a later second than the one it was created in
C8_Witness ==
    /\ ret.op = "update_chat_title"
    /\ \E id \in DOMAIN chats : chats[id].updated_at > chats[id].created_at

\* C9: a successful add_message, clear_chat_messages or update_chat_title on
\* an existing chat sets its updated_at to the time of the call, which is not
\* before the value it had, and changes no other chat's updated_at.
C9_MutationBumpsUpdatedAt ==
    [][ret'.op \in {"add_message", "clear_chat_messages", "update_chat_title"}
       => \A chat_id \in DOMAIN chats :
             (\/ /\ ret'.op = "add_message"
                 /\ \E m \in NewMsgs : add_message(chat_id, m[1], m[2])
              \/ /\ ret'.op = "clear_chat_messages"
                 /\ clear_chat_messages(chat_id)
              \/ /\ ret'.op = "update_chat_title"
                 /\ \E title \in Titles : update_chat_title(chat_id, title))
             => /\ chat_id \in DOMAIN chats'
                /\ chats'[chat_id].updated_at = now'
                /\ chats'[chat_id].updated_at >= chats[chat_id].updated_at
                /\ \A other \in DOMAIN chats \ {chat_id} :
                      /\ other \in DOMAIN chats'
                      /\ chats'[other].updated_at = chats[other].updated_at]_vars

\* clear_chat_messages has moved a chat's updated_at past that of a younger chat
C9_Witness ==
    /\ ret.op = "clear_chat_messages"
    /\ \E a, b \in DOMAIN chats :
          /\ a < b
          /\ chats[a].updated_at > chats[a].created_at
          /\ chats[a].updated_at > chats[b].updated_at

\* Case-insensitive substring, as the claim about search_chats states it:
\* every letter of the alphabet above is folded to its small form.
Lower(c) ==
    CASE c = "A"      -> "a"
      [] c = "B"      -> "b"
      [] c = "Eacute" -> "eacute"
      [] OTHER        -> c

ContainsIgnoringCase(text, q) ==
    \E k \in 0..(Len(text) - Len(q)) :
        \A i \in 1..Len(q) : Lower(text[k + i]) = Lower(q[i])

ChatsContaining(q) ==
    { id \in DOMAIN chats :
        \/ ContainsIgnoringCase(chats[id].title, q)
        \/ \E m \in Range(messages) :
              m.chat_id = id /\ ContainsIgnoringCase(m.content, q) }

\* C10: for every query q, of any characters, search_chats(q) returns exactly
\* the chats whose title, or the content of one of whose messages, contains q
\* as a case-insensitive substring, each of them once, in non-increasing
\* updated_at order.
C10_SearchIsSubstringMatch ==
    \A q \in Queries :
        LET r == search_chats(q)
        IN  /\ { r[i].id : i \in 1..Len(r) } = ChatsContaining(q)
            /\ Len(r) = Cardinality(ChatsContaining(q))
            /\ \A i, j \in 1..Len(r) : i < j => r[i].updated_at >= r[j].updated_at

\* str.upper and str.lower on the characters of the alphabet above
Upper(c) ==
    CASE c = "a"      -> "A"
      [] c = "b"      -> "B"
      [] c = "eacute" -> "Eacute"
      [] OTHER        -> c

UpperText(q) == [i \in 1..Len(q) |-> Upper(q[i])]

LowerText(q) == [i \in 1..Len(q) |-> Lower(q[i])]

SearchIds(q) == LET r == search_chats(q) IN { r[i].id : i \in 1..Len(r) }

\* C11: for every query q, search_chats returns the same set of chats for q,
\* for q in upper case and for q in lower case.
C11_SearchIgnoresCase ==
    \A q \in Queries :
        /\ SearchIds(UpperText(q)) = SearchIds(q)
        /\ SearchIds(LowerText(q)) = SearchIds(q)

\* C12: search_chats("") returns every existing chat, those without messages
\* included, each once: the same chats as get_all_chats.
C12_EmptyQueryFindsAll ==
    LET r == search_chats(<<>>)
    IN  /\ Range(r) = Range(get_all_chats)
        /\ Range(r) = { ChatRow(id) : id \in DOMAIN chats }
        /\ Len(r) = Cardinality(DOMAIN chats)

\* a chat without messages next to a chat with two messages
C12_Witness ==
    \E a, b \in DOMAIN chats :
        /\ MessagesOf(a) = <<>>
        /\ Len(MessagesOf(b)) = 2

\* the contents of the parts of a stream, in the order of the stream
Contents(s) == [i \in 1..Len(s) |-> s[i].message.content]

\* C13: for every finite stream of the backend, the generator of chat_model,
\* once fully consumed, has yielded exactly the contents of the stream's
\* parts, as many and in the same order (so the two concatenations are
\* equal), and nothing when the stream was empty; while it is being consumed
\* it has yielded the contents of the parts handed over so far.
C13_YieldsStreamInOrder ==
    gen.at \in {"streaming", "exhausted"}
    => /\ Len(yielded) = Len(stream)
       /\ yielded = Contents(stream)
       /\ (stream = <<>> => yielded = <<>>)

\* a stream of two different parts, one of them empty, consumed to its end
C13_Witness ==
    /\ gen.at = "exhausted"
    /\ Len(stream) = 2
    /\ stream[1] # stream[2]
    /\ \E i \in 1..2 : stream[i].message.content = ""

\* C14: an error raised by ollama.chat, when the stream is opened or when a
\* later part is fetched, reaches the consumer of the generator as it was
\* raised; the contents of the parts handed over before it have been yielded
\* in order, and a generator that has raised yields nothing more.
C14_ChatErrorPropagates ==
    [][(result'.op = "next" /\ chat_model_next)
       => /\ (gen.at \in {"created", "streaming"} /\ calls'[Len(calls')].err \in Errors)
             => /\ calls'[Len(calls')].fn \in {"chat", "next"}
                /\ result'.raised = calls'[Len(calls')].err
                /\ gen'.at = "raised"
                /\ yielded' = yielded
                /\ yielded' = Contents(stream')
          /\ gen.at = "raised"
             => /\ result'.raised = "StopIteration"
                /\ yielded' = yielded
                /\ gen'.at = "raised"]_vars

\* the stream raised after it had handed over a part
C14_Witness ==
    /\ gen.at = "raised"
    /\ result.raised \in Errors
    /\ calls[Len(calls)].fn = "next"
    /\ Len(yielded) >= 1

\* the number of calls of fn in a sequence of client calls
Count(cs, fn) == Cardinality({ i \in 1..Len(cs) : cs[i].fn = fn })

\* C15: whatever the outcomes of ollama.show and ollama.pull, get_model
\* returns None without raising; it calls show exactly once, first, and pull
\* exactly once when show raised and not at all when show returned.
C15_GetModelNeverRaises ==
    [][\A model_name \in ModelNames :
          (result'.op = "get_model" /\ get_model(model_name))
          => /\ result'.raised = ""
             /\ result'.value = None
             /\ calls' # <<>>
             /\ calls'[1].fn = "show"
             /\ Count(calls', "show") = 1
             /\ Count(calls', "pull") = (IF calls'[1].err = "" THEN 0 ELSE 1)
             /\ Len(calls') = Count(calls', "show") + Count(calls', "pull")]_vars

\* get_model has returned after both show and pull raised
C15_Witness ==
    /\ result.op = "get_model"
    /\ result.raised = ""
    /\ Len(calls) = 2
    /\ calls[1].err \in Errors
    /\ calls[2].fn = "pull"
    /\ calls[2].err \in Errors

\* The words of a text, told from its positions: a word starts where a
\* character that is not whitespace stands first or behind whitespace, and
\* runs up to the last character before the next whitespace or the end.
WordStarts(t) ==
    { i \in 1..Len(t) : ~IsSpace(t[i]) /\ (i = 1 \/ IsSpace(t[i - 1])) }

WordEnd(t, i) ==
    CHOOSE j \in i..Len(t) :
        /\ \A k \in i..j : ~IsSpace(t[k])
        /\ (j = Len(t) \/ IsSpace(t[j + 1]))

Words(t) ==
    LET st == Ascending(WordStarts(t))
    IN  [n \in 1..Len(st) |-> SubSeq(t, st[n], WordEnd(t, st[n]))]

\* the first n words (all of them when there are fewer) with one blank
\* between neighbours
RECURSIVE Spaced(_, _)
Spaced(ws, n) ==
    IF n = 0 \/ ws = <<>> THEN <<>>
    ELSE IF n > Len(ws) THEN Spaced(ws, Len(ws))
    ELSE IF n = 1 THEN ws[1]
    ELSE Spaced(ws, n - 1) \o <<" ">> \o ws[n]

Blank(t) == \A i \in 1..Len(t) : IsSpace(t[i])

\* C16: for a first_message that is empty or all whitespace,
\* generate_chat_title returns "New Chat" and makes no call to ollama.
C16_BlankGivesNewChat ==
    (result.op = "generate_chat_title" /\ Blank(asked.first_message))
    => /\ result = Result("generate_chat_title", "", NewChat)
       /\ calls = <<>>

\* generate_chat_title has returned for a first_message of three whitespace
\* characters, with a backend that would have answered
C16_Witness ==
    /\ result.op = "generate_chat_title"
    /\ Len(asked.first_message) = 3
    /\ Blank(asked.first_message)
    /\ asked.err = ""

\* C17: for a first_message that is not blank, when ollama.chat raises,
\* generate_chat_title does not raise and returns the first three words of
\* first_message as given (all of them when there are fewer) with single
\* blanks between them, after one call to ollama.
C17_ErrorFallsBackToMessage ==
    (/\ result.op = "generate_chat_title"
     /\ ~Blank(asked.first_message)
     /\ asked.err \in Errors)
    => /\ result.raised = ""
       /\ result.value = Spaced(Words(asked.first_message), 3)
       /\ Len(calls) = 1
       /\ calls[1].fn = "chat"
       /\ calls[1].err = asked.err

\* the call raised for a first_message of more than three words that begins
\* with whitespace and holds a question mark
C17_Witness ==
    /\ result.op = "generate_chat_title"
    /\ asked.err \in Errors
    /\ Len(Words(asked.first_message)) > 3
    /\ IsSpace(asked.first_message[1])
    /\ \E i \in 2..Len(asked.first_message) : asked.first_message[i] = "?"

Unpunctuated(t) == SelectSeq(t, LAMBDA c : c \notin {".", "!", "?"})

\* C18: for a first_message that is not blank and a reply of ollama.chat,
\* generate_chat_title returns the words of the reply without its periods,
\* exclamation marks and question marks: "New Chat" when there is none, the
\* one or two there are, or the first three, with single blanks between them.
C18_TitleFromReply ==
    (/\ result.op = "generate_chat_title"
     /\ ~Blank(asked.first_message)
     /\ asked.err = "")
    => LET ws == Words(Unpunctuated(asked.content))
       IN  /\ result.raised = ""
           /\ Len(ws) = 0 => result.value = NewChat
           /\ Len(ws) \in {1, 2} => result.value = Spaced(ws, Len(ws))
           /\ Len(ws) >= 3 => result.value = Spaced(ws, 3)

\* a reply of more than three words with punctuation of its own between them
C18_Witness ==
    /\ result.op = "generate_chat_title"
    /\ ~Blank(asked.first_message)
    /\ asked.err = ""
    /\ Len(Words(Unpunctuated(asked.content))) > 3
    /\ Len(Words(asked.content)) > Len(Words(Unpunctuated(asked.content)))

\* C19: init_database, called any number of times on a store that is new or
\* holds chats and messages, does not raise, leaves every chat and message
\* (and the id counters) as they were, and leaves the schema one call makes
\* on a new file.
C19_InitDatabaseIdempotent ==
    [][(ret'.op = "init_database" /\ init_database)
       => /\ ret'.raised = ""
          /\ chats' = chats
          /\ messages' = messages
          /\ chat_seq' = chat_seq
          /\ msg_seq' = msg_seq
          /\ schema' = InitSchema({})
          /\ InitSchema(schema') = schema']_vars

\* init_database has run on a store that holds two messages and has lost a chat
C19_Witness ==
    /\ ret.op = "init_database"
    /\ ret.raised = ""
    /\ Len(messages) = 2
    /\ SomeChatDeleted

\* C20: update_chat_title(id, t) on an existing chat sets its title to t and
\* changes nothing else but its updated_at: its id, model and created_at,
\* all messages, and every other chat stay as they were.
C20_RenameTouchesTitleOnly ==
    [][ret'.op = "update_chat_title"
       => \A chat_id \in DOMAIN chats, title \in Titles :
             update_chat_title(chat_id, title)
             => /\ DOMAIN chats' = DOMAIN chats
                /\ chats'[chat_id].title = title
                /\ chats'[chat_id].model = chats[chat_id].model
                /\ chats'[chat_id].created_at = chats[chat_id].created_at
                /\ \A other \in DOMAIN chats \ {chat_id} : chats'[other] = chats[other]
                /\ messages' = messages]_vars

\* a chat that has a message was renamed (no chat is created with this title
\* and this model), next to another chat that kept its title
C20_Witness ==
    /\ ret.op = "update_chat_title"
    /\ \E id, other \in DOMAIN chats :
          /\ chats[id].title = <<"a">>
          /\ chats[id].model = <<"m">>
          /\ MessagesOf(id) # <<>>
          /\ chats[other].title = <<>>

\* C21: clear_chat_messages(id) on an existing chat removes the messages of
\* that chat, all of them and no other: afterwards get_messages(id) is
\* empty, the chat is there with the same id, title, model and created_at,
\* and the messages of every other chat are as they were.
C21_ClearRemovesOwnMessagesOnly ==
    [][ret'.op = "clear_chat_messages"
       => \A chat_id \in DOMAIN chats :
             clear_chat_messages(chat_id)
             => /\ get_messages(chat_id)' = <<>>
                /\ DOMAIN chats' = DOMAIN chats
                /\ chats'[chat_id].title = chats[chat_id].title
                /\ chats'[chat_id].model = chats[chat_id].model
                /\ chats'[chat_id].created_at = chats[chat_id].created_at
                /\ messages' = SelectSeq(messages, LAMBDA m : m.chat_id # chat_id)
                /\ \A other \in DOMAIN chats \ {chat_id} :
                      MessagesOf(other)' = MessagesOf(other)]_vars

\* clear_chat_messages has emptied a chat while another chat keeps a message
C21_Witness ==
    /\ ret.op = "clear_chat_messages"
    /\ Len(messages) < msg_seq
    /\ \E id, other \in DOMAIN chats :
          /\ MessagesOf(id) = <<>>
          /\ MessagesOf(other) # <<>>
    /\ ~SomeChatDeleted

\* C22: for an id that names no existing chat, update_chat_title, delete_chat
\* and clear_chat_messages each return without raising, create no chat, and
\* leave every chat and every message as it was.
C22_AbsentIdIsNoOp ==
    [][\A chat_id \in ChatIds \ DOMAIN chats :
          (\/ /\ ret'.op = "update_chat_title"
              /\ \E title \in Titles : update_chat_title(chat_id, title)
           \/ /\ ret'.op = "delete_chat"
              /\ delete_chat(chat_id)
           \/ /\ ret'.op = "clear_chat_messages"
              /\ clear_chat_messages(chat_id))
          => /\ ret'.raised = ""
             /\ chats' = chats
             /\ messages' = messages
             /\ chat_seq' = chat_seq]_vars

\* delete_chat has run and every chat ever created is there, one of them
\* with a message: the id it was given named no chat
C22_Witness ==
    /\ ret.op = "delete_chat"
    /\ ~SomeChatDeleted
    /\ chat_seq >= 2
    /\ messages # <<>>

\* C23: add_message is atomic. Whatever runs between its statements and
\* wherever it is cut short, the file other connections read never holds the
\* new message without the bump of its chat's updated_at, nor the bump
\* without the message: both are committed in one step, or neither is.
C23_AddMessageAtomic ==
    [][/\ Len(messages') > Len(messages)
          => LET m == messages'[Len(messages')]
             IN  /\ tx.at = "updated"
                 /\ m = tx.row
                 /\ chats'[m.chat_id].updated_at = tx.updated_at
                 /\ chats'[m.chat_id].updated_at >= m.created_at
       /\ (tx.at # "idle" /\ chats' # chats)
          => /\ Len(messages') = Len(messages) + 1
             /\ messages'[Len(messages')] = tx.row
       /\ (tx.at # "idle" /\ tx'.at # "idle")
          => /\ chats' = chats
             /\ messages' = messages
       /\ (tx.at # "idle" /\ ret'.raised # "")
          => /\ chats' = chats
             /\ messages' = messages]_vars

\* a transaction was cut short: nothing of it is in the file, which holds
\* the message of an earlier add_message and a chat not updated this second
C23_Witness ==
    /\ ret.op = "add_message"
    /\ ret.raised = "OperationalError"
    /\ tx.at = "idle"
    /\ messages # <<>>
    /\ \E id \in DOMAIN chats : chats[id].updated_at < now

\* a successful add_message, clear_chat_messages or update_chat_title on chat_id
Mutates(chat_id) ==
    \/ /\ ret'.op = "add_message"
       /\ \E m \in NewMsgs : add_message(chat_id, m[1], m[2])
    \/ /\ ret'.op = "clear_chat_messages"
       /\ clear_chat_messages(chat_id)
    \/ /\ ret'.op = "update_chat_title"
       /\ \E title \in Titles : update_chat_title(chat_id, title)

\* C24, as stated: right after a successful add_message, clear_chat_messages
\* or update_chat_title on an existing chat c, get_all_chats returns c as
\* its first element, whatever other chats there are and however recently
\* they were updated.
C24_MutatedChatListedFirst ==
    [][ret'.op \in {"add_message", "clear_chat_messages", "update_chat_title"}
       => \A chat_id \in DOMAIN chats :
             Mutates(chat_id) => get_all_chats'[1].id = chat_id]_vars

\* C24, amended: such a call on c leaves c with the updated_at of the
\* second of the call, and get_all_chats lists a chat updated in the current
\* second behind no chat but chats whose updated_at is that same second.
C24_MutatedChatLeadsItsSecond ==
    /\ [][ret'.op \in {"add_message", "clear_chat_messages", "update_chat_title"}
          => \A chat_id \in DOMAIN chats :
                Mutates(chat_id)
                => /\ chat_id \in DOMAIN chats'
                   /\ chats'[chat_id].updated_at = now']_vars
    /\ [](LET r == get_all_chats
          IN  \A k \in 1..Len(r) :
                 r[k].updated_at = now
                 => \A i \in 1..(k - 1) : r[i].updated_at = r[k].updated_at)

\* add_message has bumped the younger of two chats in the second in which
\* the older one was last updated: the older one is still listed first
C24_Witness ==
    /\ ret.op = "add_message"
    /\ ret.raised = ""
    /\ messages # <<>>
    /\ messages[Len(messages)].id = ret.rid
    /\ LET r == get_all_chats
       IN  /\ Len(r) >= 2
           /\ r[2].id = messages[Len(messages)].chat_id
           /\ r[1].id < r[2].id
           /\ r[1].updated_at = r[2].updated_at

\* C25: a generator made by chat_model calls nothing before it is asked for
\* its first value. Then it calls get_model once (show, and pull when show
\* raised) and, whatever came of that, opens one stream with ollama.chat,
\* with the model and the messages it was made with; afterwards it only
\* fetches from that stream.
C25_GetModelThenOneChat ==
    /\ [](gen.at = "created" => calls = <<>>)
    /\ [][(result'.op = "next" /\ chat_model_next)
          => /\ gen.at = "created"
                => \E k \in 1..Len(calls') :
                      /\ SubSeq(calls', 1, k - 1) \in get_model_calls(gen.model)
                      /\ calls'[k] =
                            [fn |-> "chat", model |-> gen.model,
                             messages |-> gen.messages, stream |-> TRUE,
                             err |-> calls'[k].err]
                      /\ Count(calls', "chat") = 1
                      /\ Count(calls', "show") = 1
                      /\ \A i \in (k + 1)..Len(calls') : calls'[i].fn = "next"
                      /\ Len(calls') <= k + 1
             /\ gen.at = "streaming"
                => /\ Len(calls') = Len(calls) + 1
                   /\ SubSeq(calls', 1, Len(calls)) = calls
                   /\ calls'[Len(calls')].fn = "next"
             /\ gen.at \in {"exhausted", "raised"} => calls' = calls]_vars

\* a stream of a conversation of two messages was opened after show and
\* pull had both raised, and has handed over two parts
C25_Witness ==
    /\ gen.at = "streaming"
    /\ Len(gen.messages) = 2
    /\ Len(stream) = 2
    /\ Len(calls) = 5
    /\ calls[1].err \in Errors
    /\ calls[2].fn = "pull"
    /\ calls[2].err \in Errors
    /\ calls[3].fn = "chat"

\* C26: the ids create_chat returns are positive and each is larger than
\* every id returned before it, whatever was deleted in between: no id of a
\* deleted chat is given to a later chat.
C26_ChatIdsIncrease ==
    \A j \in 1..Len(issued) :
       /\ issued[j] > 0
       /\ \A i \in 1..(j - 1) : issued[i] < issued[j]

\* create_chat has just returned 2 or more and the chat with the id before
\* it, created earlier, is deleted
C26_Witness ==
    /\ ret.op = "create_chat"
    /\ ret.rid >= 2
    /\ issued[Len(issued)] = ret.rid
    /\ ret.rid - 1 \notin DOMAIN chats
    /\ ret.rid \in DOMAIN chats

\* the user message the running script was given
UserMessage == [role |-> "user", content |-> script.prompt]

\* C27: pressing New Chat sets current_chat_id to None and makes the
\* session's messages the start messages, the system message alone; the
\* messages given to the model with the first prompt of a chat are then the
\* system message and that prompt, nothing of an earlier conversation.
C27_NewChatStartsAfresh ==
    /\ [][(script.at = "idle" /\ new_chat)
          => /\ session_state'.current_chat_id = 0
             /\ heap'[session_state'.messages] = START_MESSAGES]_vars
    /\ [][(script.at = "saved" /\ prompt_open_stream
           /\ Len(get_messages(session_state.current_chat_id)) = 1)
          => gen'.messages = START_MESSAGES \o <<UserMessage>>]_vars

\* C28: when an exchange is complete, and when a saved chat has been
\* loaded, the session's messages after the system message are the (role,
\* content) pairs get_messages returns for the current chat, in its order.
C28_SessionMirrorsStore ==
    [][(\/ script.at = "streamed" /\ script'.at = "idle"
        \/ /\ script.at = "idle"
           /\ \E k \in 1..Len(get_all_chats) : load_chat(get_all_chats[k]))
       => \E chat_id \in ChatIds :
             /\ chat_id = session_state'.current_chat_id
             /\ Tail(heap'[session_state'.messages]) = messages_from_db(chat_id)']_vars

\* C29: from add_message of the user message to the end of the run the
\* current chat's stored messages end with the prompt, unless the answer is
\* stored; the generator is made and consumed after that add_message only.
\* When the stream raises, the run ends and stores nothing more, and the
\* session's list stays as it is. An assistant message is stored, and
\* appended to the session's list, only when the generator is exhausted, and
\* it is everything the generator yielded. A chat is created only when
\* current_chat_id is None, which then is the new id, and current_chat_id
\* becomes None again by New Chat only.
C29_UserSavedFirstAssistantLast ==
    /\ [](script.at \in {"saved", "streaming", "streamed", "raised"}
          => LET stored == get_messages(session_state.current_chat_id)
             IN  /\ stored # <<>>
                 /\ stored[Len(stored)].role = "user"
                 /\ stored[Len(stored)].content = script.prompt
                 /\ stored[Len(stored)].id = msg_seq
                 /\ Messages[Len(Messages)] = UserMessage)
    /\ [](gen.at \in {"created", "streaming"} => script.at = "streaming")
    /\ [][(result'.op = "next" /\ result'.raised \in Errors)
          => /\ script'.at = "raised"
             /\ messages' = messages
             /\ heap' = heap]_vars
    /\ [][script.at = "raised"
          => /\ script'.at \in {"raised", "idle"}
             /\ messages' = messages
             /\ heap' = heap]_vars
    /\ [][(messages' # messages \/ heap' # heap)
          => \/ /\ script.at = "streamed"
                /\ gen.at = "exhausted"
                /\ messages'[Len(messages')].role = "assistant"
                /\ messages'[Len(messages')].content = write_stream(yielded)
                /\ heap'[session_state.messages] =
                      Append(Messages, [role |-> "assistant",
                                        content |-> write_stream(yielded)])
             \/ /\ script.at \in {"chat", "appended"}
                /\ messages'[Len(messages')].role = "user"
                /\ heap' = heap
             \/ /\ script.at = "idle"
                /\ messages' = messages
                /\ \A i \in 1..Len(heap'[session_state'.messages]) :
                      heap'[session_state'.messages][i].role = "assistant"
                      => \/ session_state'.messages = "copy"
                         \/ /\ i <= Len(Messages)
                            /\ Messages[i].role = "assistant"]_vars
    /\ [][DOMAIN chats' # DOMAIN chats
          => /\ session_state.current_chat_id = 0
             /\ script.at = "appended"
             /\ DOMAIN chats' = DOMAIN chats \cup {session_state'.current_chat_id}]_vars
    /\ [][(session_state.current_chat_id # 0 /\ session_state'.current_chat_id = 0)
          => script.at = "idle" /\ new_chat]_vars

\* the second prompt of a conversation: its user message is stored in the
\* one chat there is, after the first exchange, and the stream has raised
\* after it handed over a part
C29_Witness ==
    /\ script.at = "raised"
    /\ result.raised \in Errors
    /\ Len(yielded) >= 1
    /\ Cardinality(DOMAIN chats) = 1
    /\ Len(get_messages(session_state.current_chat_id)) = 3
    /\ get_messages(session_state.current_chat_id)[2].role = "assistant"
====
